---- MODULE Spec2Model ----
(***************************************************************************)
(* Model of the token-lifecycle manager of seedr-js (src/src/Auth.ts) and  *)
(* of the file-backed store it persists to (src/src/types.ts).            *)
(*                                                                         *)
(* One action per public method of Auth starts a call; the call runs to   *)
(* its first await and is resumed, await by await, by the actions         *)
(* LoadDone, Answer, SaveDone and AwaitDone.  The inputs of a method      *)
(* (arguments, the server's responses, the time a request takes) are      *)
(* chosen nondeterministically from small sets.                            *)
(***************************************************************************)
EXTENDS Integers, Sequences, FiniteSets, TLC

VARIABLES auth, loaded, file, now, last, calls

vars == <<auth, loaded, file, now, last, calls>>

----------------------------------------------------------------------------
(* Bounds of the model                                                      *)

MaxTicks == 2          \* the clock stops after this many ticks
MaxCalls == 2          \* calls that overlap on one manager

(* Program constants                                                        *)

MsPerSec == 1000       \* expires_in * 1000
HttpOk == 200          \* response.statusCode != 200

TickMs == MsPerSec     \* one tick of the model's clock, in milliseconds
MaxNow == MaxTicks * TickMs

----------------------------------------------------------------------------
(* JavaScript values.  A number slot can hold a number, undefined, NaN,    *)
(* null (after a JSON round trip) or be a missing key.                     *)

Num(n) == [k |-> "num", v |-> n]
Undef == [k |-> "undefined", v |-> 0]
NaN == [k |-> "NaN", v |-> 0]
Null == [k |-> "null", v |-> 0]
Missing == [k |-> "missing", v |-> 0]

UndefStr == "undefined"     \* a string slot holding undefined
MissingStr == "missing"     \* a string slot whose key is missing

(* a < b on JS values: ToNumber(undefined) is NaN, ToNumber(null) is 0,    *)
(* and every comparison with NaN is false.                                 *)
IsNumeric(a) == a.k \in {"num", "null"}
ToNumber(a) == IF a.k = "num" THEN a.v ELSE 0
JsLt(a, b) == IsNumeric(a) /\ IsNumeric(b) /\ ToNumber(a) < ToNumber(b)

(* Variant of ExpiryFrom: the seconds are not converted to milliseconds.   *)
ExpiryFrom_NoMs(expires_in, t) ==
    IF expires_in.k = "num" THEN Num(expires_in.v + t)
    ELSE IF expires_in.k = "null" THEN Num(t)
    ELSE NaN

(* expires_in * 1000 + Date.now()                                          *)
ExpiryFrom(expires_in, t) ==
    IF expires_in.k = "num" THEN Num(expires_in.v * MsPerSec + t)
    ELSE IF expires_in.k = "null" THEN Num(t)
    ELSE NaN

(* An optional field is a set with at most one element.                    *)
Has(f) == f # {}
The(f) == CHOOSE x \in f : TRUE

EmptyState == [access |-> {}, refresh |-> {}, xbmc |-> {}, credential |-> {}]

----------------------------------------------------------------------------
(* The file-backed store.  `file` is {} while the file does not exist and  *)
(* {j} when it holds the JSON object j.                                    *)

(* JSON.stringify of one value: a key holding undefined is dropped, NaN    *)
(* is written as null.                                                     *)
JsonNum(a) ==
    IF a.k \in {"undefined", "missing"} THEN Missing
    ELSE IF a.k = "NaN" THEN Null
    ELSE a
JsonStr(s) == IF s \in {UndefStr, MissingStr} THEN MissingStr ELSE s

writeJSON(state) ==
    [access |-> {[token |-> JsonStr(a.token), expiry |-> JsonNum(a.expiry)]
                    : a \in state.access},
     refresh |-> {[token |-> JsonStr(r.token)] : r \in state.refresh},
     xbmc |-> {[device_code |-> JsonStr(x.device_code),
                user_code |-> JsonStr(x.user_code),
                expiry |-> JsonNum(x.expiry)] : x \in state.xbmc},
     credential |-> {[username |-> JsonStr(k.username),
                      password |-> JsonStr(k.password)]
                        : k \in state.credential}]

(* The per-call context threaded through a method: the manager's fields,   *)
(* the file, the clock, and what the call has done so far.                 *)
Ctx ==
    [auth |-> auth, loaded |-> loaded, file |-> file, now |-> now,
     reqs |-> <<>>, saves |-> 0, loads |-> 0, warns |-> <<>>]

(* FilePersistence.save *)
FileSave(c) ==
    [c EXCEPT !.file = {writeJSON(c.auth)}, !.saves = c.saves + 1]

(* FilePersistence.load: creates the file as {} when it does not exist *)
FileLoad(c) ==
    LET f == IF c.file = {} THEN {writeJSON(EmptyState)} ELSE c.file
    IN [c EXCEPT !.file = f, !.auth = The(f), !.loaded = TRUE,
                 !.loads = c.loads + 1]

(* Variant of LazyLoad: the store is read at the start of every call. *)
LazyLoad_Always(c) == FileLoad(c)

(* if (!this.#auth) this.#auth = await this.#state.load(); *)
LazyLoad(c) == IF c.loaded THEN c ELSE FileLoad(c)

Warn(c, w) == [c EXCEPT !.warns = Append(c.warns, w)]

Return(c, v) == [c |-> c, res |-> [kind |-> "return", value |-> v]]
Throw(c, e) == [c |-> c, res |-> [kind |-> "throw", value |-> e]]

----------------------------------------------------------------------------
(* The remote auth service.                                                *)

(* The error codes an endpoint answers with. *)
ErrorsFor(kind) ==
    IF kind = "device_authorize"
    THEN {"authorization_pending", "invalid_grant"}
    ELSE {"invalid_grant"}
ExpiresIn == {2}            \* the TTLs (seconds) the server declares
DelayTicks == 0..MaxTicks   \* the ticks a request can take

(* The server issues a different access token to each kind of request. *)
TokenFor(kind) ==
    CASE kind = "password" -> "tl"
      [] kind = "refresh_token" -> "tr"
      [] kind = "device_authorize" -> "tx"
      [] OTHER -> UndefStr

SuccessBody(t, e) ==
    [access_token |-> t, expires_in |-> Num(e), refresh_token |-> "r1",
     device_code |-> "d1", user_code |-> "c1", error |-> UndefStr]
ErrorBody(err) ==
    [access_token |-> UndefStr, expires_in |-> Undef,
     refresh_token |-> UndefStr, device_code |-> UndefStr,
     user_code |-> UndefStr, error |-> err]

Responses(kind) ==
    {[status |-> HttpOk, body |-> SuccessBody(TokenFor(kind), e)]
        : e \in ExpiresIn}
    \cup {[status |-> 400, body |-> ErrorBody("invalid_grant")]}
    \cup {[status |-> HttpOk, body |-> ErrorBody(err)]
            : err \in ErrorsFor(kind)}

Delays(c) == {d \in DelayTicks : c.now + d * TickMs <= MaxNow}

(* The request is sent at ts and the response resp arrives d ticks later,  *)
(* at t.                                                                   *)
Request(c, kind, a, b, d, resp) ==
    [c EXCEPT !.reqs = Append(c.reqs, [kind |-> kind, a |-> a, b |-> b,
                                       resp |-> resp, ts |-> c.now,
                                       t |-> c.now + d * TickMs]),
              !.now = c.now + d * TickMs]

(* got with throwHttpErrors left at its default rejects a non-2xx response *)
GotThrows(resp) == resp.status \notin 200..299

----------------------------------------------------------------------------
(* The methods of Auth.  Each is the set of outcomes [c, res] the call can *)
(* have from context c0: one per response the server can give and per time *)
(* the request can take.                                                   *)

(* a ?? b *)
Coalesce(a, b) == IF a \in {UndefStr, MissingStr} THEN b ELSE a

(* Variant of AccessValid: the comparison is the wrong way round.          *)
AccessValid_Inverted(c) ==
    Has(c.auth.access) /\ JsLt(The(c.auth.access).expiry, Num(c.now))

(* Date.now() < this.#auth.access.expiry *)
AccessValid(c) ==
    Has(c.auth.access) /\ JsLt(Num(c.now), The(c.auth.access).expiry)

(* Variant of loginOAuthResponse: the refresh token is not stored.         *)
loginOAuthResponse_NoRefresh(c, username, password, save, resp) ==
    IF resp.status # HttpOk THEN Throw(c, "RemoteAuthError")
    ELSE
      LET c1 == IF save
                THEN [Warn(c, "PlaintextCredential") EXCEPT
                        !.auth.credential =
                            {[username |-> username, password |-> password]}]
                ELSE c
          c2 == [c1 EXCEPT
                   !.auth.access =
                       {[token |-> resp.body.access_token,
                         expiry |-> ExpiryFrom(resp.body.expires_in, c1.now)]}]
      IN Return(FileSave(c2), "body")

(* Variant of loginOAuthResponse: the login starts from a fresh AuthState, *)
(* dropping a cached device pairing and an unsaved credential.             *)
loginOAuthResponse_Resets(c, username, password, save, resp) ==
    IF resp.status # HttpOk THEN Throw(c, "RemoteAuthError")
    ELSE
      LET c1 == IF save
                THEN [Warn(c, "PlaintextCredential") EXCEPT
                        !.auth = [EmptyState EXCEPT !.credential =
                            {[username |-> username, password |-> password]}]]
                ELSE [c EXCEPT !.auth = EmptyState]
          c2 == [c1 EXCEPT
                   !.auth.access =
                       {[token |-> resp.body.access_token,
                         expiry |-> ExpiryFrom(resp.body.expires_in, c1.now)]},
                   !.auth.refresh = {[token |-> resp.body.refresh_token]}]
      IN Return(FileSave(c2), "body")

(* loginOAuth after the response has arrived (lines 46-64) *)
loginOAuthResponse(c, username, password, save, resp) ==
    IF resp.status # HttpOk THEN Throw(c, "RemoteAuthError")
    ELSE
      LET c1 == IF save
                THEN [Warn(c, "PlaintextCredential") EXCEPT
                        !.auth.credential =
                            {[username |-> username, password |-> password]}]
                ELSE c
          c2 == [c1 EXCEPT
                   !.auth.access =
                       {[token |-> resp.body.access_token,
                         expiry |-> ExpiryFrom(resp.body.expires_in, c1.now)]},
                   !.auth.refresh = {[token |-> resp.body.refresh_token]}]
      IN Return(FileSave(c2), "body")

(* Variant of loginOAuth: the arguments take precedence over the cached    *)
(* credential.                                                             *)
loginOAuth_ArgsFirst(c0, username_arg, password_arg, save) ==
    LET c == LazyLoad(c0)
        username == IF Has(c.auth.credential)
                    THEN Coalesce(username_arg, The(c.auth.credential).username)
                    ELSE username_arg
        password == IF Has(c.auth.credential)
                    THEN Coalesce(password_arg, The(c.auth.credential).password)
                    ELSE password_arg
    IN IF username = UndefStr \/ password = UndefStr
       THEN {Throw(c, "MissingCredential")}
       ELSE IF AccessValid(c)
       THEN {Return(Warn(c, "TokenStillValid"), UndefStr)}
       ELSE {loginOAuthResponse(
                 Request(c, "password", username, password, d, resp),
                 username, password, save, resp)
                : resp \in Responses("password"), d \in Delays(c)}

loginOAuth(c0, username_arg, password_arg, save) ==
    LET c == LazyLoad(c0)
        username == IF Has(c.auth.credential)
                    THEN Coalesce(The(c.auth.credential).username, username_arg)
                    ELSE username_arg
        password == IF Has(c.auth.credential)
                    THEN Coalesce(The(c.auth.credential).password, password_arg)
                    ELSE password_arg
    IN IF username = UndefStr \/ password = UndefStr
       THEN {Throw(c, "MissingCredential")}
       ELSE IF AccessValid(c)
       THEN {Return(Warn(c, "TokenStillValid"), UndefStr)}
       ELSE {loginOAuthResponse(
                 Request(c, "password", username, password, d, resp),
                 username, password, save, resp)
                : resp \in Responses("password"), d \in Delays(c)}

(* Variant of refreshTokenOAuthResponse: the new token is not stored.      *)
refreshTokenOAuthResponse_NoStore(c, resp) ==
    IF resp.status # HttpOk THEN Throw(c, "RemoteAuthError")
    ELSE Return(FileSave(c), "body")

(* Variant of refreshTokenOAuthResponse: the refresh token of the response *)
(* replaces the cached one.                                                *)
refreshTokenOAuthResponse_RotatesRefresh(c, resp) ==
    IF resp.status # HttpOk THEN Throw(c, "RemoteAuthError")
    ELSE
      LET c1 == [c EXCEPT
                   !.auth.access =
                       {[token |-> resp.body.access_token,
                         expiry |-> ExpiryFrom(resp.body.expires_in, c.now)]},
                   !.auth.refresh = {[token |-> resp.body.refresh_token]}]
      IN Return(FileSave(c1), "body")

(* refreshTokenOAuth after the response has arrived (lines 85-93) *)
refreshTokenOAuthResponse(c, resp) ==
    IF resp.status # HttpOk THEN Throw(c, "RemoteAuthError")
    ELSE
      LET c1 == [c EXCEPT
                   !.auth.access =
                       {[token |-> resp.body.access_token,
                         expiry |-> ExpiryFrom(resp.body.expires_in, c.now)]}]
      IN Return(FileSave(c1), "body")

refreshTokenOAuth(c0) ==
    LET c == LazyLoad(c0)
    IN IF ~Has(c.auth.refresh)
       THEN {Return(Warn(c, "NoRefreshToken"), UndefStr)}
       ELSE {refreshTokenOAuthResponse(
                 Request(c, "refresh_token", The(c.auth.refresh).token, "", d,
                         resp),
                 resp)
                : resp \in Responses("refresh_token"), d \in Delays(c)}

(* obtainDeviceCode after the response has arrived (lines 119-128) *)
obtainDeviceCodeResponse(c, resp) ==
    IF GotThrows(resp) THEN Throw(c, "HTTPError")
    ELSE IF resp.status # HttpOk THEN Throw(c, "RemoteAuthError")
    ELSE
      LET c1 == [c EXCEPT
                   !.auth.xbmc =
                       {[device_code |-> resp.body.device_code,
                         user_code |-> resp.body.user_code,
                         expiry |-> ExpiryFrom(resp.body.expires_in, c.now)]}]
      IN Return(FileSave(c1), "body")

(* Variant of obtainDeviceCode: a new code is requested whenever no         *)
(* unexpired pending code is held, replacing the pairing already stored.   *)
obtainDeviceCode_Overwrites(c0) ==
    LET c == LazyLoad(c0)
    IN IF Has(c.auth.xbmc) /\ JsLt(Num(c.now), The(c.auth.xbmc).expiry)
       THEN {Return(Warn(c, "DeviceCodePending"), UndefStr)}
       ELSE {obtainDeviceCodeResponse(
                 Request(c, "device_code", "", "", d, resp), resp)
                : resp \in Responses("device_code"), d \in Delays(c)}

obtainDeviceCode(c0) ==
    LET c == LazyLoad(c0)
    IN IF Has(c.auth.xbmc)
       THEN IF JsLt(Num(c.now), The(c.auth.xbmc).expiry)
            THEN {Return(Warn(c, "DeviceCodePending"), UndefStr)}
            ELSE {Return(Warn(c, "DeviceAlreadyRegistered"), UndefStr)}
       ELSE {obtainDeviceCodeResponse(
                 Request(c, "device_code", "", "", d, resp), resp)
                : resp \in Responses("device_code"), d \in Delays(c)}

(* Variant of refreshTokenXBMCResponse: the pairing is marked approved     *)
(* before the authorization_pending test.                                  *)
refreshTokenXBMCResponse_ClearsFirst(c, resp) ==
    IF GotThrows(resp) THEN Throw(c, "HTTPError")
    ELSE IF ~Has(c.auth.xbmc) THEN Throw(c, "TypeError")
    ELSE
      LET x == The(c.auth.xbmc)
          c0 == [c EXCEPT !.auth.xbmc = {[x EXCEPT !.expiry = Undef]}]
      IN IF resp.body.error = "authorization_pending"
         THEN Throw(Warn(c0, "VerifyDevice"), "AuthorizationPending")
         ELSE Return(FileSave([c0 EXCEPT
                   !.auth.access =
                       {[token |-> resp.body.access_token,
                         expiry |-> ExpiryFrom(resp.body.expires_in,
                                               c.now)]}]), "body")

(* refreshTokenXBMC after the response has arrived (lines 147-163) *)
refreshTokenXBMCResponse(c, resp) ==
    IF GotThrows(resp) THEN Throw(c, "HTTPError")
    ELSE IF ~Has(c.auth.xbmc) THEN Throw(c, "TypeError")
    ELSE IF resp.body.error = "authorization_pending"
    THEN Throw(Warn(c, "VerifyDevice"), "AuthorizationPending")
    ELSE
      LET x == The(c.auth.xbmc)
          c1 == [c EXCEPT
                   !.auth.xbmc = {[x EXCEPT !.expiry = Undef]},
                   !.auth.access =
                       {[token |-> resp.body.access_token,
                         expiry |-> ExpiryFrom(resp.body.expires_in, c.now)]}]
      IN Return(FileSave(c1), "body")

refreshTokenXBMC(c0) ==
    LET c == LazyLoad(c0)
    IN IF ~Has(c.auth.xbmc)
       THEN {Return(Warn(c, "NoDeviceCode"), UndefStr)}
       ELSE {refreshTokenXBMCResponse(
                 Request(c, "device_authorize", The(c.auth.xbmc).device_code,
                         "", d, resp),
                 resp)
                : resp \in Responses("device_authorize"), d \in Delays(c)}

(* this.#auth.xbmc && !(this.#auth.xbmc.expiry < Date.now())  (line 175) *)
XbmcEligible(c) ==
    Has(c.auth.xbmc) /\ ~JsLt(The(c.auth.xbmc).expiry, Num(c.now))

(* lines 191-193 *)
CascadeEnd(c) ==
    IF ~Has(c.auth.access) THEN Throw(c, "Unauthenticated")
    ELSE Return(c, The(c.auth.access).token)

----------------------------------------------------------------------------
(* The resource API client: Seedr.callFunc over the manager.               *)

(* if (x): a string is truthy unless it is absent or empty *)
Truthy(v) == v \notin {UndefStr, MissingStr, ""}

(* What the resource API answers: success, a rejected token, and a 200     *)
(* whose body carries an error field, set or empty.                        *)
ResourceResponses ==
    {[status |-> HttpOk, body |-> SuccessBody(UndefStr, 0)],
     [status |-> 401, body |-> ErrorBody("invalid_token")],
     [status |-> HttpOk, body |-> ErrorBody("invalid_token")],
     [status |-> HttpOk, body |-> ErrorBody("")]}

(* callFunc after the response has arrived (Seedr.ts lines 55-61) *)
callFuncResponse(c, resp) ==
    IF resp.status # HttpOk \/ Truthy(resp.body.error)
    THEN Throw(c, "UnexpectedResponse")
    ELSE Return(c, "body")

----------------------------------------------------------------------------
(* The state machine.                                                      *)

(* The (username, password) arguments a caller passes to loginOAuth. *)
LoginArgs == {<<UndefStr, UndefStr>>, <<"u2", UndefStr>>, <<"u2", "p2">>}

(* Records a store file can hold when the manager is constructed: what an  *)
(* earlier session saved, or what the user put there.  The manager is      *)
(* constructed before or at the time the stored access token expires.      *)
InitAccess == {{}, {[token |-> "t0", expiry |-> Num(1 * TickMs)]}}
InitRefresh == {{}, {[token |-> "r0"]}}
InitXbmc ==
    {{},
     {[device_code |-> "d0", user_code |-> "c0", expiry |-> Num(1 * TickMs)]},
     {[device_code |-> "d0", user_code |-> "c0", expiry |-> Missing]}}
InitCredential == {{}, {[username |-> "u1", password |-> "p1"]}}

InitFiles ==
    {[access |-> a, refresh |-> r, xbmc |-> x, credential |-> k]
        : a \in InitAccess, r \in InitRefresh, x \in InitXbmc,
          k \in InitCredential}

NoArgs == [username |-> UndefStr, password |-> UndefStr, save |-> FALSE]

NoCall ==
    [op |-> "none", args |-> NoArgs, pre |-> EmptyState,
     res |-> [kind |-> "return", value |-> UndefStr],
     reqs |-> <<>>, saves |-> 0, loads |-> 0, warns |-> <<>>,
     t0 |-> 0, t1 |-> 0, stored |-> {}, granted |-> FALSE,
     tok |-> [kind |-> "none", value |-> UndefStr]]

(* Init: the state after construction.  `calls` holds the calls that are   *)
(* suspended at an await, one frame each: the method and its arguments,    *)
(* the kind of await it waits at (at: the load of the store, the answer to *)
(* a request, or a save), the place of that await in the method (stage),   *)
(* the request it has sent (req), the record its load() read (rec), what   *)
(* the method that saved will return (ret), and what the call has done so  *)
(* far (h), and whether a token grant of this call, or of a call that ran  *)
(* while this one was suspended, was accepted and stored (granted).  An    *)
(* awaited method that has settled, with or without a request, leaves the  *)
(* method that awaits it suspended (at "ret") until the await resumes; ret *)
(* is then how the awaited method ended.  h.tok is how the getAccessToken  *)
(* that a callFunc awaits ended.                                           *)
(* `last` describes the call that ended most recently, until the caller    *)
(* makes the next call (NoCall from then on): the method, its arguments,   *)
(* the AuthState it started from (after the lazy load), how it ended, the  *)
(* requests it sent with the responses they got, the saves and loads it    *)
(* made, the time when it ran its first line after the lazy load (t0) and  *)
(* the time when it ended (t1), and the record the store held when it was  *)
(* called (stored).                                                        *)
Init ==
    /\ auth = EmptyState
    /\ loaded = FALSE
    /\ file \in {{}} \cup {{f} : f \in InitFiles}
    /\ now \in {0, TickMs}
    /\ calls = {}
    /\ last = NoCall

(* The server accepted the request: status 200 and no error field. *)
Accepted(q) == q.resp.status = HttpOk /\ q.resp.body.error = UndefStr

NoReq == [kind |-> "none", a |-> UndefStr, b |-> UndefStr, ts |-> 0]

(* A call runs synchronously until it ends with outcome o, or until it     *)
(* has sent request req and waits for the answer at the await `at`.        *)
Ended(o) == [done |-> TRUE, c |-> o.c, res |-> o.res, at |-> "end",
             stage |-> "end", req |-> NoReq]
Awaits(stage, req, c) ==
    [done |-> FALSE, c |-> c, res |-> [kind |-> "return", value |-> UndefStr],
     at |-> "net", stage |-> stage, req |-> req]

(* The method awaited at `stage` has settled with outcome o; the method     *)
(* that awaits it resumes in a later turn of the job queue.                *)
Settled(stage, o) ==
    [done |-> FALSE, c |-> o.c, res |-> o.res, at |-> "ret",
     stage |-> stage, req |-> NoReq]

DirectOps ==
    {"loginOAuth", "refreshTokenOAuth", "obtainDeviceCode", "refreshTokenXBMC"}

RunDirect(c, op, args) ==
    CASE op = "loginOAuth" ->
           loginOAuth(c, args.username, args.password, args.save)
      [] op = "refreshTokenOAuth" -> refreshTokenOAuth(c)
      [] op = "obtainDeviceCode" -> obtainDeviceCode(c)
      [] op = "refreshTokenXBMC" -> refreshTokenXBMC(c)

(* A method on a loaded manager, from its lazy-load line to its network    *)
(* await: it ends before sending anything, or it sends its request.        *)
Prefix(c, stage, S) ==
    LET o == CHOOSE o \in S : TRUE
    IN IF Len(o.c.reqs) = Len(c.reqs)
       THEN Ended(o)
       ELSE LET q == o.c.reqs[Len(c.reqs) + 1]
            IN Awaits(stage, [kind |-> q.kind, a |-> q.a, b |-> q.b,
                              ts |-> c.now], c)

(* Variant of CascadeOrder: the refresh grant is tried before the device   *)
(* code exchange.                                                          *)
CascadeOrder_RefreshFirst == <<"refresh", "xbmc", "login">>

(* The order in which getAccessToken tries the credentials (Auth.ts        *)
(* lines 172-190).                                                         *)
CascadeOrder == <<"xbmc", "refresh", "login">>

StageIdx(s) == CHOOSE i \in 1..Len(CascadeOrder) : CascadeOrder[i] = s

(* the condition of a stage's if *)
StageEligible(s, c) ==
    CASE s = "xbmc" -> XbmcEligible(c)
      [] s = "refresh" -> Has(c.auth.refresh)
      [] s = "login" -> Has(c.auth.credential)

(* the method a stage awaits *)
StageRun(s, c) ==
    CASE s = "xbmc" -> refreshTokenXBMC(c)
      [] s = "refresh" -> refreshTokenOAuth(c)
      [] s = "login" -> loginOAuth(c, UndefStr, UndefStr, FALSE)

RECURSIVE CascadeFrom(_, _)
RECURSIVE AfterStage(_, _)

(* getAccessToken from its i-th stage on, in context c, to its next await  *)
(* (lines 178, 185, 189) or to its end.                                    *)
CascadeFrom(i, c) ==
    IF i > Len(CascadeOrder)
    THEN Ended(CascadeEnd(c))
    ELSE LET s == CascadeOrder[i]
         IN IF ~StageEligible(s, c)
            THEN CascadeFrom(i + 1, c)
            ELSE LET r == Prefix(c, s, StageRun(s, c))
                 IN IF r.done THEN Settled(s, r) ELSE r

(* getAccessToken resumed after the method awaited at stage i ended with   *)
(* o: the device code exchange is inside try/catch, the other two are not. *)
AfterStage(i, o) ==
    IF o.res.kind = "throw"
    THEN IF CascadeOrder[i] = "xbmc"
         THEN CascadeFrom(i + 1, Warn(o.c, "XBMCInvalid"))
         ELSE Ended(o)
    ELSE CascadeFrom(i + 1, o.c)

(* getAccessToken on a loaded manager, from line 168 to its first await   *)
(* or, when it awaits nothing, to its end                                  *)
getAccessToken(c) ==
    IF AccessValid(c)
    THEN Ended(Return(c, The(c.auth.access).token))
    ELSE CascadeFrom(1, c)

(* Variant of callFunc: the bearer token is read from the cache, and the   *)
(* request is sent whatever getAccessToken does.                           *)
callFunc_CachedBearer(o) ==
    Awaits("resource",
           [kind |-> "resource",
            a |-> IF Has(o.c.auth.access)
                  THEN The(o.c.auth.access).token ELSE UndefStr,
            b |-> "", ts |-> o.c.now], o.c)

(* Seedr.callFunc (Seedr.ts lines 41-54) resumed after the getAccessToken   *)
(* it awaits ended with o: a throw of getAccessToken ends it, and the      *)
(* token returned goes into the request's Authorization: Bearer header.    *)
callFunc(o) ==
    IF o.res.kind = "throw"
    THEN Ended(o)
    ELSE Awaits("resource",
                [kind |-> "resource", a |-> o.res.value, b |-> "",
                 ts |-> o.c.now], o.c)

(* const token = await this.auth.getAccessToken() (Seedr.ts line 41), the  *)
(* getAccessToken having run to r: callFunc waits on while getAccessToken  *)
(* is suspended, and for the await to resume once it has ended.            *)
AwaitToken(r) == IF r.done THEN Settled("token", r) ELSE r

(* The call op(args) on a loaded manager, up to its first await. *)
Begin(c, op, args) ==
    CASE op \in DirectOps -> Prefix(c, "direct", RunDirect(c, op, args))
      [] op = "getAccessToken" -> getAccessToken(c)
      [] op = "callFunc" -> AwaitToken(getAccessToken(c))

(* Variant of Handler: the request carries the cached credential but the   *)
(* arguments of the call, when given, are what save = true stores.         *)
Handler_SavesArgs(k, c, resp) ==
    CASE k.req.kind = "password" ->
           loginOAuthResponse(c, Coalesce(k.args.username, k.req.a),
                              Coalesce(k.args.password, k.req.b),
                              k.op = "loginOAuth" /\ k.args.save, resp)
      [] k.req.kind = "refresh_token" -> refreshTokenOAuthResponse(c, resp)
      [] k.req.kind = "device_code" -> obtainDeviceCodeResponse(c, resp)
      [] k.req.kind = "device_authorize" -> refreshTokenXBMCResponse(c, resp)
      [] k.req.kind = "resource" -> callFuncResponse(c, resp)

(* The method that sent the request of frame k handles the response: the   *)
(* username and password it sent are the locals that save = true stores.   *)
Handler(k, c, resp) ==
    CASE k.req.kind = "password" ->
           loginOAuthResponse(c, k.req.a, k.req.b,
                              k.op = "loginOAuth" /\ k.args.save, resp)
      [] k.req.kind = "refresh_token" -> refreshTokenOAuthResponse(c, resp)
      [] k.req.kind = "device_code" -> obtainDeviceCodeResponse(c, resp)
      [] k.req.kind = "device_authorize" -> refreshTokenXBMCResponse(c, resp)
      [] k.req.kind = "resource" -> callFuncResponse(c, resp)

(* The call of frame k once the method that sent its request has ended    *)
(* with o: the call ends, or the getAccessToken that awaits the method     *)
(* waits for its await to resume.                                          *)
AfterInner(k, o) ==
    IF k.stage \in {"direct", "resource"}
    THEN Ended(o)
    ELSE Settled(k.stage, o)

(* The call of frame k resumed after the method it awaits ended with o:    *)
(* callFunc goes on after its getAccessToken, getAccessToken goes on to    *)
(* its next stage.                                                         *)
AfterAwait(k, o) ==
    IF k.stage = "token"
    THEN callFunc(o)
    ELSE LET r == AfterStage(StageIdx(k.stage), o)
         IN IF k.op = "callFunc" THEN AwaitToken(r) ELSE r

(* The call of frame k from the arrival of resp on: the method that sent   *)
(* the request has called save() and waits for it, or it has ended.        *)
Resume(k, c, resp) ==
    LET o == Handler(k, c, resp)
    IN IF o.c.saves > c.saves
       THEN [done |-> FALSE, c |-> o.c, res |-> o.res, at |-> "save",
             stage |-> k.stage, req |-> k.req]
       ELSE AfterInner(k, o)

ResponsesTo(kind) ==
    IF kind = "resource" THEN ResourceResponses ELSE Responses(kind)

(* The context in which the call of frame k runs on: the manager, the      *)
(* store and the clock as they are now, and what the call did so far.      *)
CallCtx(k) ==
    [auth |-> auth, loaded |-> loaded, file |-> file, now |-> now,
     reqs |-> k.h.reqs, saves |-> k.h.saves, loads |-> k.h.loads,
     warns |-> k.h.warns]

(* In running to r the call of frame k stored the token of an accepted     *)
(* grant.                                                                  *)
Granted(k, r) ==
    /\ r.c.saves > k.h.saves
    /\ Accepted(r.c.reqs[Len(r.c.reqs)])
    /\ TokenFor(r.c.reqs[Len(r.c.reqs)].kind) # UndefStr

(* The call of frame k has run to r: it ended, or it is suspended again.   *)
(* old is the frame the call was suspended in, if any.                     *)
Proceed(old, k, r) ==
    /\ auth' = r.c.auth
    /\ loaded' = r.c.loaded
    /\ file' = r.c.file
    /\ now' = r.c.now
    /\ IF r.done
       THEN /\ last' = [op |-> k.op, args |-> k.args, pre |-> k.h.pre,
                        res |-> r.res, reqs |-> r.c.reqs,
                        saves |-> r.c.saves, loads |-> r.c.loads,
                        warns |-> r.c.warns, t0 |-> k.h.t0, t1 |-> r.c.now,
                        stored |-> k.h.stored, granted |-> k.granted,
                        tok |-> k.h.tok]
            /\ calls' = calls \ old
       ELSE /\ last' = IF old = {} THEN NoCall ELSE last
            /\ calls' =
                  {[f EXCEPT !.granted = f.granted \/ Granted(k, r)]
                      : f \in calls \ old} \cup
                  {[k EXCEPT !.at = r.at, !.stage = r.stage, !.req = r.req,
                             !.ret = r.res,
                             !.granted = k.granted \/ Granted(k, r),
                             !.h.reqs = r.c.reqs, !.h.saves = r.c.saves,
                             !.h.loads = r.c.loads, !.h.warns = r.c.warns,
                             !.h.tok = IF r.stage = "token" THEN r.res
                                       ELSE k.h.tok]}

FreeId == CHOOSE i \in 1..MaxCalls : \A k \in calls : k.id # i

(* The caller calls op(args).  The call runs to its first await: the load  *)
(* of the store when this.#auth is unset, else as Begin says.              *)
Call(op, args) ==
    /\ Cardinality(calls) < MaxCalls
    /\ LET k == [id |-> FreeId, op |-> op, args |-> args, at |-> "load",
                 stage |-> "load", req |-> NoReq, rec |-> EmptyState,
                 ret |-> [kind |-> "return", value |-> UndefStr],
                 granted |-> \E f \in calls : f.granted,
                 h |-> [pre |-> auth, reqs |-> <<>>, saves |-> 0,
                        loads |-> 0, warns |-> <<>>, t0 |-> now,
                        stored |-> file, tok |-> NoCall.tok]]
           c == LazyLoad(Ctx)
       IN IF c.loads > 0
          THEN /\ calls' = calls \cup
                     {[k EXCEPT !.rec = c.auth, !.h.loads = c.loads]}
               /\ file' = c.file
               /\ last' = NoCall
               /\ UNCHANGED <<auth, loaded, now>>
          ELSE \E r \in {Begin(c, op, args)} : Proceed({}, k, r)

(* this.#auth = await this.#state.load(): the load of a suspended call     *)
(* completes, the record it read replaces this.#auth, and the call runs    *)
(* on to its next await.                                                   *)
LoadDone ==
    \E k \in calls :
      /\ k.at = "load"
      /\ LET c == [CallCtx(k) EXCEPT !.auth = k.rec, !.loaded = TRUE]
         IN \E r \in {Begin(c, k.op, k.args)} :
               Proceed({k}, [k EXCEPT !.h.pre = k.rec, !.h.t0 = now], r)

(* The response resp to the request of frame k has arrived. *)
Arrived(k, resp) ==
    LET c == CallCtx(k)
    IN [c EXCEPT !.reqs = Append(c.reqs,
                     [kind |-> k.req.kind, a |-> k.req.a, b |-> k.req.b,
                      resp |-> resp, ts |-> k.req.ts, t |-> c.now])]

(* The response to the request of a suspended call arrives, and the call   *)
(* runs on to its next await or to its end.                                *)
Answer ==
    \E k \in calls :
      /\ k.at = "net"
      /\ \E resp \in ResponsesTo(k.req.kind) :
           \E r \in {Resume(k, Arrived(k, resp), resp)} : Proceed({k}, k, r)

(* await this.#state.save(this.#auth): the save of a suspended call        *)
(* completes, and the method returns the response body.                    *)
SaveDone ==
    \E k \in calls :
      /\ k.at = "save"
      /\ \E r \in {AfterInner(k, [c |-> CallCtx(k), res |-> k.ret])} :
            Proceed({k}, k, r)

(* The await of a method that has settled (Auth.ts lines 178, 185, 189;    *)
(* Seedr.ts line 41) resumes, and the call runs on to its next await or to *)
(* its end.                                                                *)
AwaitDone ==
    \E k \in calls :
      /\ k.at = "ret"
      /\ \E r \in {AfterAwait(k, [c |-> CallCtx(k), res |-> k.ret])} :
            Proceed({k}, k, r)

LoginOAuth ==
    \E a \in LoginArgs, save \in BOOLEAN :
        Call("loginOAuth",
             [username |-> a[1], password |-> a[2], save |-> save])

RefreshTokenOAuth == Call("refreshTokenOAuth", NoArgs)

ObtainDeviceCode == Call("obtainDeviceCode", NoArgs)

RefreshTokenXBMC == Call("refreshTokenXBMC", NoArgs)

GetAccessToken == Call("getAccessToken", NoArgs)

CallFunc == Call("callFunc", NoArgs)

(* Time passes: between two calls, and while a request is under way.  The  *)
(* load and the save of the store (FilePersistence: readJSONSync and       *)
(* writeJSONSync) take no time on the millisecond clock.                   *)
Tick ==
    /\ \A k \in calls : k.at = "net"
    /\ now + TickMs <= MaxNow
    /\ now' = now + TickMs
    /\ UNCHANGED <<auth, loaded, file, last, calls>>

(* The caller awaits each call before it makes the next. *)
Idle == calls = {}

(* The caller makes a call without awaiting the calls it has made: no call *)
(* has ended since the last one was made.  With Cardinality(calls) <       *)
(* MaxCalls in Call, up to MaxCalls calls overlap.                         *)
Burst == last = NoCall

Next ==
    \/ Idle /\ LoginOAuth
    \/ Idle /\ RefreshTokenOAuth
    \/ Idle /\ ObtainDeviceCode
    \/ Idle /\ RefreshTokenXBMC
    \/ Idle /\ GetAccessToken
    \/ LoadDone
    \/ Answer
    \/ SaveDone
    \/ AwaitDone
    \/ Tick

Spec == Init /\ [][Next]_vars

(* A program that only asks for the token, awaiting each call. *)
NextLive ==
    \/ Idle /\ GetAccessToken
    \/ LoadDone
    \/ Answer
    \/ SaveDone
    \/ AwaitDone
    \/ Tick

(* What a suspended call waits for happens: every request receives a      *)
(* response, the store completes every load and every save, and the job    *)
(* queue resumes every await whose promise has settled.                    *)
SpecLive ==
    /\ Init
    /\ [][NextLive]_vars
    /\ WF_vars(LoadDone)
    /\ WF_vars(Answer)
    /\ WF_vars(SaveDone)
    /\ WF_vars(AwaitDone)

----------------------------------------------------------------------------
(* Vocabulary of the properties.                                           *)


LastIs(op) == last.op = op

(* The AuthState the last call started from held an unexpired access token *)
PreAccessValid ==
    /\ Has(last.pre.access)
    /\ The(last.pre.access).expiry.k = "num"
    /\ last.t0 < The(last.pre.access).expiry.v

Returned(v) == last.res = [kind |-> "return", value |-> v]
Threw(e) == last.res = [kind |-> "throw", value |-> e]

(* Indices of the requests of the last call that the server accepted *)
AcceptedIdx == {i \in 1..Len(last.reqs) : Accepted(last.reqs[i])}

----------------------------------------------------------------------------
(* C1: whenever getAccessToken is called with an access token cached and   *)
(* unexpired, it returns that token, sends no request, saves nothing and   *)
(* leaves the whole AuthState as it was, whatever else is cached.          *)
C1_CacheHit ==
    (LastIs("getAccessToken") /\ PreAccessValid) =>
        /\ Returned(The(last.pre.access).token)
        /\ last.reqs = <<>>
        /\ last.saves = 0
        /\ auth = last.pre

C1_Witness ==
    /\ LastIs("getAccessToken") /\ PreAccessValid
    /\ Has(last.pre.xbmc) /\ Has(last.pre.refresh) /\ Has(last.pre.credential)
    /\ Returned("t0")

(* No response of the last call had status 200 and an error field. *)
WellFormedResponses ==
    \A i \in 1..Len(last.reqs) :
        last.reqs[i].resp.status = HttpOk => Accepted(last.reqs[i])

(* C2: whenever getAccessToken returns, the token it returns is the cached *)
(* access token and is unexpired at the time of the return; an expired     *)
(* token is never returned.  Stated for the calls whose responses are well *)
(* formed (a status 200 carries no error field).                           *)
C2_ReturnedTokenUnexpired ==
    (LastIs("getAccessToken") /\ last.res.kind = "return"
        /\ WellFormedResponses) =>
        /\ Has(auth.access)
        /\ last.res.value = The(auth.access).token
        /\ The(auth.access).expiry.k = "num"
        /\ last.t1 < The(auth.access).expiry.v

(* C3: the only error getAccessToken raises is Unauthenticated.            *)
C3_OnlyUnauthenticated ==
    (LastIs("getAccessToken") /\ last.res.kind = "throw") =>
        Threw("Unauthenticated")

(* C4: within one getAccessToken call a failed strategy does not stop the  *)
(* later ones: after a failed device exchange the refresh grant is still   *)
(* sent when a refresh token is cached, after a failed refresh grant the   *)
(* password grant is still sent when a credential is cached, and when the  *)
(* later strategy is accepted its token is returned.                       *)
C4_FailureContinues ==
    LastIs("getAccessToken") =>
        \A i \in 1..Len(last.reqs) :
            ~Accepted(last.reqs[i]) =>
                /\ (last.reqs[i].kind = "device_authorize"
                        /\ Has(last.pre.refresh))
                     => (i < Len(last.reqs)
                            /\ last.reqs[i + 1].kind = "refresh_token")
                /\ (last.reqs[i].kind = "refresh_token"
                        /\ Has(last.pre.credential))
                     => (i < Len(last.reqs)
                            /\ last.reqs[i + 1].kind = "password")
                /\ (i < Len(last.reqs) /\ Accepted(last.reqs[i + 1])
                        /\ i + 1 = Len(last.reqs))
                     => Returned(last.reqs[i + 1].resp.body.access_token)

(* C5: getAccessToken stops at the first strategy the server accepts: no   *)
(* request follows it in the call and its token is the one returned.       *)
(* Stated for the calls whose responses are well formed.                   *)
C5_ShortCircuit ==
    (LastIs("getAccessToken") /\ AcceptedIdx # {} /\ WellFormedResponses) =>
        LET first == CHOOSE i \in AcceptedIdx : \A j \in AcceptedIdx : i <= j
        IN /\ Len(last.reqs) = first
           /\ Returned(last.reqs[first].resp.body.access_token)

(* C6: when the refresh token is the only usable credential and the server *)
(* accepts the refresh grant, getAccessToken sends that one request,       *)
(* returns the token issued and caches it: until that token expires a      *)
(* following getAccessToken sends nothing and returns the same token.      *)
C6_Case ==
    /\ LastIs("getAccessToken")
    /\ Has(last.pre.refresh)
    /\ ~PreAccessValid
    /\ ~Has(last.pre.xbmc)
    /\ ~Has(last.pre.credential)
    /\ Len(last.reqs) >= 1
    /\ Accepted(last.reqs[1])

C6_RefreshOnly ==
    C6_Case =>
        LET q == last.reqs[1]
            issued == q.resp.body.access_token
        IN /\ Len(last.reqs) = 1
           /\ q.kind = "refresh_token"
           /\ q.a = The(last.pre.refresh).token
           /\ Returned(issued)
           /\ Has(auth.access)
           /\ The(auth.access).token = issued
           /\ (The(auth.access).expiry.k = "num"
                 /\ now < The(auth.access).expiry.v)
                => LET r == getAccessToken(Ctx)
                   IN /\ r.done
                      /\ r.res = [kind |-> "return", value |-> issued]
                      /\ r.c.reqs = <<>>

C6_Witness ==
    /\ C6_Case
    /\ Has(last.pre.access)
    /\ now > last.t1
    /\ now < The(auth.access).expiry.v

(* C7: from an AuthState holding only credential {u, p}, with the server   *)
(* accepting the password grant, getAccessToken sends exactly one request, *)
(* the password grant with u and p, returns the token issued, and refresh  *)
(* then holds the server's refresh token.                                  *)
C7_Case ==
    /\ LastIs("getAccessToken")
    /\ ~Has(last.pre.access) /\ ~Has(last.pre.refresh) /\ ~Has(last.pre.xbmc)
    /\ Has(last.pre.credential)
    /\ Len(last.reqs) >= 1
    /\ Accepted(last.reqs[1])

C7_CredentialOnly ==
    C7_Case =>
        LET q == last.reqs[1]
            k == The(last.pre.credential)
        IN /\ Len(last.reqs) = 1
           /\ q.kind = "password"
           /\ q.a = k.username /\ q.b = k.password
           /\ Returned(q.resp.body.access_token)
           /\ auth.refresh = {[token |-> q.resp.body.refresh_token]}

C7_Witness == C7_Case /\ Returned("tl")

(* C8: with a pending, unexpired pairing, no refresh token and no          *)
(* credential, and the device exchange answered authorization_pending,     *)
(* getAccessToken fails with Unauthenticated and leaves xbmc unchanged.    *)
C8_PendingFallsThrough ==
    (/\ LastIs("getAccessToken")
     /\ Has(last.pre.xbmc)
     /\ The(last.pre.xbmc).expiry.k = "num"
     /\ last.t0 < The(last.pre.xbmc).expiry.v
     /\ ~Has(last.pre.refresh) /\ ~Has(last.pre.credential)
     /\ Len(last.reqs) = 1
     /\ last.reqs[1].kind = "device_authorize"
     /\ last.reqs[1].resp.body.error = "authorization_pending") =>
        /\ Threw("Unauthenticated")
        /\ auth.xbmc = last.pre.xbmc

(* C9: a direct loginOAuth while the cached access token is unexpired      *)
(* fails with TokenStillValid, sends no request, saves nothing and leaves  *)
(* AuthState unchanged.  Stated for the calls that have a username and a   *)
(* password, cached or passed as arguments.                                *)
C9_LoginRefused ==
    (/\ LastIs("loginOAuth") /\ PreAccessValid
     /\ \/ Has(last.pre.credential)
        \/ (last.args.username # UndefStr /\ last.args.password # UndefStr))
    =>
        /\ Threw("TokenStillValid")
        /\ last.reqs = <<>>
        /\ last.saves = 0
        /\ auth = last.pre

(* C10: a loginOAuth the server accepts replaces access by the token       *)
(* issued with expiry = time the response arrived + expires_in seconds,    *)
(* however long the request took, sets                                     *)
(* refresh to the refresh token issued, stores the credential used if save *)
(* is true and leaves credential alone otherwise, and has saved the        *)
(* resulting state when it returns.                                        *)
C10_Case ==
    /\ LastIs("loginOAuth")
    /\ Len(last.reqs) = 1
    /\ Accepted(last.reqs[1])

C10_LoginStores ==
    C10_Case =>
        LET q == last.reqs[1]
        IN /\ last.res.kind = "return"
           /\ auth.access =
                {[token |-> q.resp.body.access_token,
                  expiry |-> Num(q.t + q.resp.body.expires_in.v * 1000)]}
           /\ auth.refresh = {[token |-> q.resp.body.refresh_token]}
           /\ last.args.save =>
                auth.credential = {[username |-> q.a, password |-> q.b]}
           /\ ~last.args.save => auth.credential = last.pre.credential
           /\ auth.xbmc = last.pre.xbmc
           /\ last.saves = 1
           /\ file = {writeJSON(auth)}

(* the response arrives later than the request was sent *)
C10_Witness ==
    /\ C10_Case
    /\ last.reqs[1].t > last.reqs[1].ts
    /\ last.args.save
    /\ Has(last.pre.access)
    /\ ~Has(last.pre.credential)
    /\ auth.credential = {[username |-> "u2", password |-> "p2"]}


(* C11: loginOAuth uses the cached credential when there is one and its    *)
(* arguments only otherwise; when there is no cached credential and the    *)
(* arguments lack the username or the password it fails with               *)
(* MissingCredential, sends no request, saves nothing and leaves AuthState *)
(* unchanged; it fails with MissingCredential in no other case.            *)
ArgsBoth == last.args.username # UndefStr /\ last.args.password # UndefStr

C11_CredentialSource ==
    LastIs("loginOAuth") =>
        LET k == last.pre.credential
        IN /\ Has(k) =>
                \A i \in 1..Len(last.reqs) :
                    /\ last.reqs[i].kind = "password"
                    /\ last.reqs[i].a = The(k).username
                    /\ last.reqs[i].b = The(k).password
           /\ (~Has(k) /\ ArgsBoth) =>
                \A i \in 1..Len(last.reqs) :
                    /\ last.reqs[i].kind = "password"
                    /\ last.reqs[i].a = last.args.username
                    /\ last.reqs[i].b = last.args.password
           /\ (~Has(k) /\ ~ArgsBoth) =>
                /\ Threw("MissingCredential")
                /\ last.reqs = <<>>
                /\ last.saves = 0
                /\ auth = last.pre
           /\ Threw("MissingCredential") => (~Has(k) /\ ~ArgsBoth)

C11_Witness ==
    /\ LastIs("loginOAuth")
    /\ last.pre.credential = {[username |-> "u1", password |-> "p1"]}
    /\ last.args.username = "u2" /\ last.args.password = "p2"
    /\ Len(last.reqs) = 1
    /\ last.reqs[1].a = "u1" /\ last.reqs[1].b = "p1"


(* C12: in loginOAuth, refreshTokenOAuth, obtainDeviceCode and             *)
(* refreshTokenXBMC a response with a status other than 200 or with an     *)
(* error field stores no access token, stores no refresh token and does    *)
(* not clear xbmc.expiry.                                                  *)

C12_FailureStoresNothing ==
    (/\ last.op \in DirectOps
     /\ Len(last.reqs) = 1
     /\ ~Accepted(last.reqs[1])) =>
        /\ auth.access = last.pre.access
        /\ auth.refresh = last.pre.refresh
        /\ Has(last.pre.xbmc) =>
             /\ Has(auth.xbmc)
             /\ The(auth.xbmc).expiry = The(last.pre.xbmc).expiry


(* xbmc.expiry is absent: the pairing has been approved *)
Approved(x) == x.expiry.k \in {"undefined", "missing"}

(* C13: the device pairing is monotonic. An operation that starts with a   *)
(* pairing ends with the same device_code and user_code; its expiry is     *)
(* either left as it was or cleared; an approved pairing stays approved;   *)
(* and a pairing that an operation creates is not yet approved.            *)
C13_PairingMonotonic ==
    LET p == last.pre.xbmc
    IN /\ Has(p) =>
            /\ Has(auth.xbmc)
            /\ The(auth.xbmc).device_code = The(p).device_code
            /\ The(auth.xbmc).user_code = The(p).user_code
            /\ \/ The(auth.xbmc).expiry = The(p).expiry
               \/ Approved(The(auth.xbmc))
            /\ Approved(The(p)) => Approved(The(auth.xbmc))
       /\ (~Has(p) /\ Has(auth.xbmc) /\ last.op # "none") =>
            /\ last.op = "obtainDeviceCode"
            /\ ~Approved(The(auth.xbmc))

(* obtainDeviceCode is called on a pairing that was requested and approved *)
(* earlier in the run, and the pairing is still the approved one.          *)
C13_Witness ==
    /\ LastIs("obtainDeviceCode")
    /\ last.pre.xbmc = {[device_code |-> "d1", user_code |-> "c1",
                         expiry |-> Undef]}
    /\ auth.xbmc = last.pre.xbmc


(* C14: obtainDeviceCode called while the code stored by an earlier        *)
(* obtainDeviceCode of this run is still pending and unexpired fails with  *)
(* DeviceCodePending, sends no request and leaves the pairing as stored.   *)
C14_SecondCallFails ==
    (/\ LastIs("obtainDeviceCode")
     /\ Has(last.pre.xbmc)
     /\ The(last.pre.xbmc).device_code = "d1"
     /\ JsLt(Num(last.t0), The(last.pre.xbmc).expiry)) =>
        /\ Threw("DeviceCodePending")
        /\ last.reqs = <<>>
        /\ auth.xbmc = last.pre.xbmc


(* The pairing the last call started from is pending and its expiry has    *)
(* passed without approval.                                                *)
PreXbmcLapsed ==
    /\ Has(last.pre.xbmc)
    /\ The(last.pre.xbmc).expiry.k = "num"
    /\ The(last.pre.xbmc).expiry.v < last.t0

(* C15: obtainDeviceCode called once the pending code has lapsed does not  *)
(* report DeviceAlreadyRegistered; it requests a new code from the server  *)
(* and, when the server issues one, stores the new pending pairing.        *)
C15_LapsedCodeRenewed ==
    (LastIs("obtainDeviceCode") /\ PreXbmcLapsed) =>
        /\ \A i \in 1..Len(last.warns) :
               last.warns[i] # "DeviceAlreadyRegistered"
        /\ Len(last.reqs) = 1
        /\ last.reqs[1].kind = "device_code"
        /\ Accepted(last.reqs[1]) =>
             auth.xbmc =
                 {[device_code |-> last.reqs[1].resp.body.device_code,
                   user_code |-> last.reqs[1].resp.body.user_code,
                   expiry |-> ExpiryFrom(last.reqs[1].resp.body.expires_in,
                                         last.reqs[1].t)]}


(* C16: a direct refreshTokenXBMC whose exchange is answered with          *)
(* authorization_pending throws AuthorizationPending, saves nothing and    *)
(* leaves the whole AuthState as it was.                                   *)
C16_PendingLeavesState ==
    (/\ LastIs("refreshTokenXBMC")
     /\ Len(last.reqs) = 1
     /\ last.reqs[1].resp.body.error = "authorization_pending") =>
        /\ Threw("AuthorizationPending")
        /\ last.saves = 0
        /\ auth = last.pre

(* a pending, unexpired pairing is exchanged and the answer is pending *)
C16_Witness ==
    /\ LastIs("refreshTokenXBMC")
    /\ Len(last.reqs) = 1
    /\ last.reqs[1].resp.body.error = "authorization_pending"
    /\ Has(last.pre.xbmc)
    /\ JsLt(Num(last.t0), The(last.pre.xbmc).expiry)
    /\ Has(last.pre.access)
    /\ auth.xbmc = last.pre.xbmc


(* C17: a refreshTokenOAuth that the server accepts replaces access with   *)
(* the token and expiry of the response, saves the state once so that the  *)
(* store holds the new state, and leaves refresh, xbmc and credential as   *)
(* they were before the call.                                              *)
C17_RefreshFrame ==
    (/\ LastIs("refreshTokenOAuth")
     /\ Len(last.reqs) = 1
     /\ Accepted(last.reqs[1])) =>
        LET body == last.reqs[1].resp.body
        IN /\ Returned("body")
           /\ auth.access = {[token |-> body.access_token,
                              expiry |-> ExpiryFrom(body.expires_in,
                                                    last.reqs[1].t)]}
           /\ last.saves = 1
           /\ file = {writeJSON(auth)}
           /\ auth.refresh = last.pre.refresh
           /\ auth.xbmc = last.pre.xbmc
           /\ auth.credential = last.pre.credential

(* an accepted refresh with all four fields cached, replacing an older     *)
(* access token                                                            *)
C17_Witness ==
    /\ LastIs("refreshTokenOAuth")
    /\ Len(last.reqs) = 1
    /\ Accepted(last.reqs[1])
    /\ last.pre.refresh = {[token |-> "r0"]}
    /\ Has(last.pre.access) /\ Has(last.pre.xbmc) /\ Has(last.pre.credential)
    /\ auth.access # last.pre.access
    /\ auth.refresh = last.pre.refresh


(* C18: refreshTokenOAuth called with no refresh token cached throws       *)
(* NoRefreshToken, and refreshTokenXBMC called with no xbmc cached throws  *)
(* NoDeviceCode; neither sends a request nor changes the AuthState.        *)
C18_MissingInputRaises ==
    /\ (LastIs("refreshTokenOAuth") /\ ~Has(last.pre.refresh)) =>
           /\ Threw("NoRefreshToken")
           /\ last.reqs = <<>>
           /\ auth = last.pre
    /\ (LastIs("refreshTokenXBMC") /\ ~Has(last.pre.xbmc)) =>
           /\ Threw("NoDeviceCode")
           /\ last.reqs = <<>>
           /\ auth = last.pre


(* C19: credential changes only through a loginOAuth called with save =    *)
(* true that the server accepted; every other operation, getAccessToken    *)
(* with its internal login included, leaves credential as it was.          *)
C19_CredentialFrame ==
    (last.op # "none" /\ auth.credential # last.pre.credential) =>
        /\ LastIs("loginOAuth")
        /\ last.args.save
        /\ Len(last.reqs) = 1
        /\ Accepted(last.reqs[1])


Dimensions == {"access", "refresh", "xbmc", "credential"}

(* C20: no operation removes a field of the AuthState: each of access,     *)
(* refresh, xbmc and credential that is present when an operation starts   *)
(* is present when it ends, whether the operation returned or threw.       *)
C20_NothingCleared ==
    \A f \in Dimensions : Has(last.pre[f]) => Has(auth[f])

(* an accepted login with all four fields cached: access and refresh are   *)
(* replaced and all four fields are still present                          *)
C20_Witness ==
    /\ LastIs("loginOAuth")
    /\ Len(last.reqs) = 1
    /\ Accepted(last.reqs[1])
    /\ \A f \in Dimensions : Has(last.pre[f]) /\ Has(auth[f])
    /\ auth.access # last.pre.access
    /\ auth.refresh # last.pre.refresh


(* C21: a refresh token appears only through an OAuth login that the       *)
(* server accepted: an operation that starts without a refresh token and   *)
(* ends with one has sent a password grant that was accepted.  Holding in  *)
(* every step, this gives for every run from an empty AuthState that       *)
(* refresh is present only after a successful login.                       *)
C21_RefreshFromLogin ==
    (last.op # "none" /\ ~Has(last.pre.refresh) /\ Has(auth.refresh)) =>
        \E i \in 1..Len(last.reqs) :
            /\ last.reqs[i].kind = "password"
            /\ Accepted(last.reqs[i])


-----------------------------------------------------------------------------
(* The store file is changed from outside the manager after the load.      *)

(* A record another program writes to the file: it holds an access token   *)
(* that stays valid and a refresh token, neither known to the manager.     *)
ExternalRecord ==
    [EmptyState EXCEPT
       !.access = {[token |-> "te", expiry |-> Num(MaxNow + TickMs)]},
       !.refresh = {[token |-> "re"]}]

ExternalWrite ==
    /\ loaded
    /\ file # {ExternalRecord}
    /\ file' = {ExternalRecord}
    /\ UNCHANGED <<auth, loaded, now, last, calls>>

NextExt ==
    \/ Idle /\ LoginOAuth
    \/ Idle /\ RefreshTokenOAuth
    \/ Idle /\ GetAccessToken
    \/ LoadDone
    \/ Answer
    \/ SaveDone
    \/ AwaitDone
    \/ Tick
    \/ ExternalWrite

(* The manager is constructed over a file without a device pairing. *)
InitExt == Init /\ \A f \in file : f.xbmc = {}

SpecExt == InitExt /\ [][NextExt]_vars

(* A call made in this step and suspended: on a manager that has loaded,   *)
(* it has not read the store and started from the AuthState in memory;     *)
(* else it has read the store once and waits for the record.               *)
C22_CallMade ==
    \A k \in calls' :
        (\A f \in calls : f.id # k.id) =>
            IF loaded
            THEN k.h.loads = 0 /\ k.h.pre = auth /\ k.at # "load"
            ELSE /\ k.h.loads = 1
                 /\ k.at = "load"
                 /\ k.rec = IF file = {} THEN writeJSON(EmptyState)
                            ELSE The(file)

(* A suspended call that runs on in this step reads the store no more, and *)
(* it starts from the record it read when its load completes.              *)
C22_CallRunsOn ==
    \A k \in calls', f \in calls :
        f.id = k.id =>
            /\ k.h.loads = f.h.loads
            /\ k.h.pre = IF f.at = "load" THEN f.rec ELSE f.h.pre

(* A call that ends in this step: made in this same step, it ran on a      *)
(* loaded manager from the AuthState in memory without reading the store;  *)
(* suspended before, it has made the loads it had made.                    *)
C22_CallEnds ==
    (last' # last /\ last'.op # "none") =>
        IF calls = {}
        THEN loaded /\ last'.loads = 0 /\ last'.pre = auth
        ELSE \E f \in calls :
                /\ last'.loads = f.h.loads
                /\ last'.pre = IF f.at = "load" THEN f.rec ELSE f.h.pre

(* C22: the constructor loads nothing; the first operation loads the       *)
(* store once and starts from the record read; no later operation loads    *)
(* again, and each later operation starts from the AuthState the manager   *)
(* holds in memory, whatever the store has come to hold since.             *)
C22_LoadOnce ==
    /\ [](~loaded => auth = EmptyState /\ last = NoCall)
    /\ [][C22_CallMade /\ C22_CallRunsOn /\ C22_CallEnds]_vars

(* getAccessToken starts while the store holds the externally written      *)
(* record with its valid token, does not load it, and fails for want of    *)
(* any credential in memory.                                               *)
C22_Witness ==
    /\ LastIs("getAccessToken")
    /\ last.stored = {ExternalRecord}
    /\ last.loads = 0
    /\ ~Has(last.pre.access)
    /\ Threw("Unauthenticated")


(* C23: a direct loginOAuth, refreshTokenOAuth, obtainDeviceCode or        *)
(* refreshTokenXBMC whose request the server accepted has saved exactly    *)
(* once when it returns, and the store then holds the mutated state; a     *)
(* call that was not accepted, and a getAccessToken that hits the cache,   *)
(* has saved nothing.                                                      *)
C23_OneSavePerSuccess ==
    /\ last.op \in DirectOps =>
         IF Len(last.reqs) = 1 /\ Accepted(last.reqs[1])
         THEN /\ last.res.kind = "return"
              /\ last.saves = 1
              /\ file = {writeJSON(auth)}
         ELSE last.saves = 0
    /\ (LastIs("getAccessToken") /\ PreAccessValid) => last.saves = 0


(* C24: on the file-backed store, saving the AuthState the manager holds   *)
(* and loading it again gives back a record equal to that AuthState;       *)
(* loading with nothing stored gives the empty record; and saving twice    *)
(* leaves the record that saving once leaves.  Stated for the states the   *)
(* manager holds after a call whose responses were well formed.            *)
C24_RoundTrip ==
    (last.op # "none" /\ WellFormedResponses) =>
        LET saved == FileSave(Ctx)
            reloaded == FileLoad([saved EXCEPT !.loaded = FALSE])
            fresh == FileLoad([Ctx EXCEPT !.file = {}, !.loaded = FALSE])
        IN /\ reloaded.auth = auth
           /\ fresh.auth = EmptyState
           /\ FileSave(saved).file = saved.file


-----------------------------------------------------------------------------
(* A program using the client: it logs in through seedr.auth and calls the *)
(* API, awaiting each call or, as SeedrExtended.clearWishlist does         *)
(* (Promise.all over deleteWishlistItem), making API calls that overlap.   *)
NextApi ==
    \/ (Idle \/ Burst) /\ CallFunc     \* SeedrExtended.clearWishlist overlaps them
    \/ Idle /\ LoginOAuth
    \/ LoadDone
    \/ Answer
    \/ SaveDone
    \/ AwaitDone
    \/ Tick

(* The manager is constructed over a file that holds at most an access     *)
(* token and a refresh token; a credential comes from loginOAuth.          *)
InitApi == Init /\ \A f \in file : f.xbmc = {} /\ f.credential = {}

SpecApi == InitApi /\ [][NextApi]_vars

(* The order in which a cascade may send its requests. *)
CascadeRank(kind) ==
    CASE kind = "device_authorize" -> 1
      [] kind = "refresh_token" -> 2
      [] kind = "password" -> 3
      [] OTHER -> 0

(* The requests are device code exchange, refresh grant, password grant,   *)
(* in this order, each at most once.                                       *)
InCascadeOrder(reqs) ==
    /\ \A i \in 1..Len(reqs) : CascadeRank(reqs[i].kind) > 0
    /\ \A i, j \in 1..Len(reqs) :
           i < j => CascadeRank(reqs[i].kind) < CascadeRank(reqs[j].kind)

ResourceIdx == {i \in 1..Len(last.reqs) : last.reqs[i].kind = "resource"}

(* C25: a callFunc that has ended has awaited a getAccessToken to its end; *)
(* when that getAccessToken returned, the call sent one resource request,  *)
(* its last request, after the requests of the getAccessToken, with the    *)
(* token returned as bearer; when that getAccessToken threw, the call sent *)
(* no resource request and threw the same error.  A suspended callFunc has *)
(* a resource request under way only with the token its getAccessToken     *)
(* returned as bearer.                                                     *)
C25_BearerFromGetAccessToken ==
    /\ LastIs("callFunc") =>
         LET n == Len(last.reqs)
         IN /\ last.tok.kind \in {"return", "throw"}
            /\ IF last.tok.kind = "throw"
               THEN /\ last.res = last.tok
                    /\ ResourceIdx = {}
               ELSE /\ ResourceIdx = {n}
                    /\ last.reqs[n].a = last.tok.value
                    /\ InCascadeOrder(SubSeq(last.reqs, 1, n - 1))
    /\ \A k \in calls :
         k.op = "callFunc" =>
            /\ \A i \in 1..Len(k.h.reqs) : k.h.reqs[i].kind # "resource"
            /\ k.req.kind = "resource" =>
                  /\ k.h.tok.kind = "return"
                  /\ k.req.a = k.h.tok.value

(* callFunc renews the expired token by a refresh grant and sends the new  *)
(* token, not the cached one, as bearer.                                   *)
C25_Witness ==
    /\ LastIs("callFunc")
    /\ Len(last.reqs) = 2
    /\ last.reqs[1].kind = "refresh_token"
    /\ Accepted(last.reqs[1])
    /\ last.reqs[2].kind = "resource"
    /\ last.reqs[2].a = "tr"
    /\ last.pre.access = {[token |-> "t0", expiry |-> Num(1 * TickMs)]}


(* A getAccessToken is under way: its call is suspended at an await. *)
C26_Running == \E k \in calls : k.op = "getAccessToken"

(* The requests of a getAccessToken, ended or under way, are in cascade     *)
(* order, so at most three; one that is suspended waits for the record of  *)
(* the store, for the answer to a request that comes later in the order    *)
(* than every request it has sent, for the save after its last request,    *)
(* or for the await of a method it called; one that returned has returned  *)
(* the access token the manager holds.                                     *)
C26_Ordered ==
    /\ LastIs("getAccessToken") =>
         /\ InCascadeOrder(last.reqs)
         /\ Len(last.reqs) <= 3
         /\ last.res.kind = "return" =>
               /\ Has(auth.access)
               /\ last.res.value = The(auth.access).token
    /\ \A k \in calls :
         k.op = "getAccessToken" =>
            CASE k.at = "load" -> k.h.reqs = <<>>
              [] k.at = "net" ->
                   InCascadeOrder(Append(k.h.reqs, [kind |-> k.req.kind]))
              [] k.at = "save" ->
                   /\ InCascadeOrder(k.h.reqs)
                   /\ k.h.reqs # <<>>
                   /\ k.h.reqs[Len(k.h.reqs)].kind = k.req.kind
              [] k.at = "ret" ->
                   /\ InCascadeOrder(k.h.reqs)
                   /\ k.stage \in {CascadeOrder[i] : i \in 1..Len(CascadeOrder)}

(* C26: the requests of one getAccessToken are a device code exchange,     *)
(* then a refresh grant, then a password grant, each at most once, so at   *)
(* most three; and, when every request is answered and every load, save    *)
(* and await completes (SpecLive), a getAccessToken that is under way      *)
(* ends, by returning or by throwing.                                      *)
C26_BoundedCascade ==
    /\ []C26_Ordered
    /\ C26_Running ~> (LastIs("getAccessToken") /\ calls = {})

(* a getAccessToken that sent all three requests *)
C26_Witness ==
    /\ LastIs("getAccessToken")
    /\ Len(last.reqs) = 3
    /\ last.reqs[1].kind = "device_authorize"
    /\ last.reqs[2].kind = "refresh_token"
    /\ last.reqs[3].kind = "password"


(* The pairing is pending and its expiry has not passed at time t. *)
PendingUnexpired(x, t) == x.expiry.k = "num" /\ ~(x.expiry.v < t)

(* C27: a getAccessToken that starts without a valid access token sends a  *)
(* device code exchange exactly when a pairing is cached that is approved  *)
(* or is pending with its expiry not passed; with no pairing, or with a    *)
(* pending pairing whose expiry has passed, it sends none.                 *)
C27_ExchangeEligibility ==
    (LastIs("getAccessToken") /\ ~PreAccessValid) =>
        ((\E i \in 1..Len(last.reqs) : last.reqs[i].kind = "device_authorize")
           <=> \E x \in last.pre.xbmc :
                   Approved(x) \/ PendingUnexpired(x, last.t0))


(* C28: once the first load has happened, between calls the record the     *)
(* file-backed store holds equals the AuthState the manager holds in       *)
(* memory.  Stated for the states left by a call whose responses were well *)
(* formed.                                                                 *)
C28_WriteThrough ==
    (loaded /\ calls = {} /\ last.op # "none" /\ WellFormedResponses) =>
        file = {auth}


(* The record a load of the store f returns. *)
StoredRecord(f) == IF f = {} THEN writeJSON(EmptyState) ELSE The(f)

(* C29: when the server rejects the request of a direct loginOAuth,        *)
(* refreshTokenOAuth, obtainDeviceCode or refreshTokenXBMC (a status other *)
(* than 200, or an error field), the AuthState in memory and the stored    *)
(* record are what they were when the call started; in particular the      *)
(* credential of a rejected login is not stored.                           *)
C29_FailureAtomic ==
    (/\ last.op \in DirectOps
     /\ Len(last.reqs) = 1
     /\ ~Accepted(last.reqs[1])) =>
        /\ auth = last.pre
        /\ last.saves = 0
        /\ StoredRecord(file) = StoredRecord(last.stored)


(* C30: a cached credential keeps its value through every operation; a     *)
(* loginOAuth given other arguments sends the cached username and password *)
(* and, with save = true, stores the cached pair again.                    *)
C30_CredentialStable ==
    Has(last.pre.credential) =>
        /\ auth.credential = last.pre.credential
        /\ \A i \in 1..Len(last.reqs) :
               last.reqs[i].kind = "password" =>
                   /\ last.reqs[i].a = The(last.pre.credential).username
                   /\ last.reqs[i].b = The(last.pre.credential).password

(* an accepted loginOAuth("u2", "p2", true) over the cached pair u1/p1 *)
C30_Witness ==
    /\ LastIs("loginOAuth")
    /\ last.args = [username |-> "u2", password |-> "p2", save |-> TRUE]
    /\ last.pre.credential = {[username |-> "u1", password |-> "p1"]}
    /\ Len(last.reqs) = 1
    /\ Accepted(last.reqs[1])
    /\ last.saves = 1
    /\ auth.credential = {[username |-> "u1", password |-> "p1"]}


-----------------------------------------------------------------------------
(* Overlapping calls on one manager, from any of the five methods of Auth.  *)
NextConc ==
    \/ Burst /\ LoginOAuth
    \/ Burst /\ RefreshTokenOAuth
    \/ Burst /\ GetAccessToken
    \/ Burst /\ ObtainDeviceCode
    \/ Burst /\ RefreshTokenXBMC
    \/ LoadDone
    \/ Answer
    \/ SaveDone
    \/ AwaitDone
    \/ Tick

(* The manager is constructed at time 0 over a file without an access      *)
(* token, which holds at most a refresh token and either a pending device  *)
(* pairing or a credential.                                                *)
InitConc ==
    /\ Init
    /\ now = 0
    /\ \A f \in file :
          /\ f.access = {}
          /\ \A x \in f.xbmc : x.expiry # Missing /\ f.credential = {}

SpecConc == InitConc /\ [][NextConc]_vars

(* Every call has completed. *)
Quiet == loaded /\ calls = {}

(* C31: once every overlapping call has completed, the store holds the     *)
(* serialised in-memory AuthState, and if one of the calls had a grant     *)
(* accepted and stored its token, an access token is present in memory.    *)
C31_NoLostUpdate ==
    Quiet =>
        /\ file = {writeJSON(auth)}
        /\ last.granted => Has(auth.access)

====
